---- MODULE Spec2Model ----
(***************************************************************************)
(* dx_environment.py: lifecycle operations on Delphix environments.        *)
(*                                                                         *)
(* The module models                                                       *)
(*   - the eight action functions as operators that take the function's    *)
(*     arguments and the outcomes of the SDK / lookup calls they make and   *)
(*     return what the function did: the SDK calls it issued, the keys of   *)
(*     dlpx_obj.jobs it wrote, what it logged and what it raised;           *)
(*   - main_workflow, one worker per engine, and main, as a state machine   *)
(*     (Spec);                                                             *)
(*   - a direct caller of the action functions against a mocked SDK         *)
(*     (CallSpec), which draws every argument, also those the CLI never     *)
(*     passes (ase_user, ase_pw).                                          *)
(*                                                                         *)
(* Reading conventions.  ARGUMENTS is the module global the code reads; it *)
(* is taken to hold every key the code reads.  dlpx_obj.dlpx_engines is    *)
(* the ordered mapping of configured engines, and keys()[0] its first key. *)
(***************************************************************************)
EXTENDS Integers, Sequences, FiniteSets, TLC

\* ------------------------------------------------------------------ bounds
NumEngines == 2
MaxEnvs == 2
MaxSpin == 1

\* ------------------------------------------------------- values and names
NONE == "<None>"

AllEnvNames == <<"envA", "envB", "envC", "envD">>
AllEnvRefs == <<"ENV-1", "ENV-2", "ENV-3", "ENV-4">>
AllHostRefs == <<"HOST-1", "HOST-2", "HOST-3", "HOST-4">>

Engines == 1..NumEngines

\* The environments the mocked engine can hold, in the order it lists them.
EnvList(k) == [i \in 1..k |-> AllEnvNames[i]]

EnvNames == {AllEnvNames[i] : i \in 1..MaxEnvs}

EnvIndex(n) == CHOOSE i \in 1..Len(AllEnvNames) : AllEnvNames[i] = n

\* The object a successful lookup of environment n returns.
EnvObj(n) ==
  [name |-> n, reference |-> AllEnvRefs[EnvIndex(n)], host |-> AllHostRefs[EnvIndex(n)]]

AllHostAddresses == <<"10.0.3.60", "10.0.3.61", "10.0.3.62", "10.0.3.63">>

HostIndex(a) == CHOOSE i \in 1..Len(AllHostAddresses) : AllHostAddresses[i] = a

\* The object a successful lookup of the host registered under address a returns.
HostObj(a, type) == [reference |-> AllHostRefs[HostIndex(a)], type |-> type]

\* Python truthiness of an optional string argument.
Truthy(x) == x # NONE /\ x # ""

\* ------------------------------------------------------------- exceptions
\* Exception kinds an SDK call or a lookup helper can raise.
Raisable == {"DlpxException", "DlpxObjectNotFound", "RequestError", "HttpError", "JobError"}

CallOutcomes == {"ok"} \cup Raisable

\* find_obj_by_name: an object, None, or an exception.
LookupOutcomes == {"found", "None"} \cup Raisable

\* The local "object not found" kind is a kind of DlpxException.
IsInstance(kind, classes) ==
  \/ kind \in classes
  \/ kind = "DlpxObjectNotFound" /\ "DlpxException" \in classes

Raw(kind) == [kind |-> kind, cause |-> "none"]

\* raise dlpx_exceptions.DlpxException(f'...{err}')
Wrapped(kind) == [kind |-> "DlpxException", cause |-> kind]

NoExc == Raw("none")

\* --------------------------------------------- what an action function did
\* The configured engines, in the order of the configuration.
dlpx_engines == [i \in 1..NumEngines |-> i]

\* dlpx_obj.dlpx_engines.keys()[0]
engine_name == Head(dlpx_engines)

Returned ==
  [raised |-> NoExc, calls |-> <<>>, writes |-> <<>>, logged |-> <<>>, printed |-> <<>>]

SdkCall(op, ref, params) == [op |-> op, ref |-> ref, params |-> params]

Issue(r, c) == [r EXCEPT !.calls = Append(@, c)]

\* dlpx_obj.jobs[engine_name] = dlpx_obj.server_session.last_job
WriteJob(r) == [r EXCEPT !.writes = Append(@, engine_name)]

\* dx_logging.print_exception(...)
Log(r, kind) == [r EXCEPT !.logged = Append(@, kind)]

Raise(r, exc) == [r EXCEPT !.raised = exc]

\* ---------------------------------------------------- enable / disable
EnableDisable(op, env_name, lk, out) ==
  IF lk \in Raisable THEN Raise(Returned, Raw(lk))
  ELSE IF lk = "None" THEN Raise(Returned, Raw("AttributeError"))
  ELSE LET r == Issue(Returned, SdkCall(op, EnvObj(env_name).reference, NONE))
       IN IF out = "ok" THEN r
          ELSE IF IsInstance(out, {"DlpxException", "RequestError"}) THEN Log(r, out)
          ELSE Raise(r, Raw(out))

enable_environment(env_name, lk, out) ==
  EnableDisable("environment.enable", env_name, lk, out)

disable_environment(env_name, lk, out) ==
  EnableDisable("environment.disable", env_name, lk, out)

\* ------------------------------------------------------ update_host_address
HostTypes == {"WindowsHost", "UnixHost", "Host"}

\* Mutant: the type test never matches.
HostKindFor_AlwaysUnix(old_type) == "UnixHost"

HostKindFor(old_type) == IF old_type = "WindowsHost" THEN "WindowsHost" ELSE "UnixHost"

update_host_address(old_host_address, new_host_address, lk, old_type, out) ==
  IF lk \in Raisable THEN Raise(Returned, Raw(lk))
  ELSE IF lk = "None" THEN Raise(Returned, Raw("AttributeError"))
  ELSE LET old_host_obj == HostObj(old_host_address, old_type)
           host_obj == [type |-> HostKindFor(old_host_obj.type), address |-> new_host_address]
           r == Issue(Returned, SdkCall("host.update", old_host_obj.reference, host_obj))
       IN IF out = "ok" THEN r
          ELSE IF IsInstance(out, {"DlpxException", "RequestError"}) THEN Log(r, out)
          ELSE Raise(r, Raw(out))

\* ------------------------------------------------------------------ list_env
\* outs[i]: "ok", "nohost" (env.host is missing: AttributeError, passed over)
\* or the exception one of the two name lookups for environment i raises.
ListOutcomes == {"ok", "nohost"} \cup Raisable

RECURSIVE ListLoop(_, _, _, _)
ListLoop(envs, outs, i, r) ==
  IF i > Len(envs) THEN r
  ELSE IF outs[i] \in Raisable THEN Raise(r, Raw(outs[i]))
  ELSE ListLoop(envs, outs, i + 1, [r EXCEPT !.printed = Append(@, envs[i])])

list_env(ga, envs, outs) ==
  LET r == Issue(Returned, SdkCall("environment.get_all", NONE, NONE))
  IN IF ga # "ok" THEN Raise(r, Raw(ga))
     ELSE ListLoop(envs, outs, 1, r)

\* ---------------------------------------------------------------- delete_env
delete_env(env_name, lk, out) ==
  IF lk \in Raisable THEN Raise(Returned, Raw(lk))
  ELSE IF lk = "found" THEN
    LET r == Issue(Returned, SdkCall("environment.delete", EnvObj(env_name).reference, NONE))
    IN IF out = "ok" THEN WriteJob(r) ELSE Raise(r, Raw(out))
  ELSE Returned \* DlpxObjectNotFound(...) is constructed, not raised

\* --------------------------------------------------------------- refresh_env
RECURSIVE RefreshLoop(_, _, _, _)
RefreshLoop(envs, outs, i, r) ==
  IF i > Len(envs) THEN r
  ELSE LET r1 == Issue(r, SdkCall("environment.refresh", EnvObj(envs[i]).reference, NONE))
       IN IF outs[i] = "ok" THEN RefreshLoop(envs, outs, i + 1, WriteJob(r1))
          ELSE IF IsInstance(outs[i], {"DlpxException", "RequestError"})
            THEN RefreshLoop(envs, outs, i + 1, r1) \* DlpxException(...) constructed, dropped
          ELSE Raise(r1, Raw(outs[i]))

refresh_all(fa, envs, outs) ==
  IF fa # "ok" THEN Raise(Returned, Raw(fa))
  ELSE RefreshLoop(envs, outs, 1, Returned)

RefreshCatch(r, kind) ==
  IF IsInstance(kind, {"DlpxException", "RequestError"}) THEN Raise(r, Wrapped(kind))
  ELSE Raise(r, Raw(kind))

refresh_one(env_name, lk, out) ==
  IF lk \in Raisable THEN RefreshCatch(Returned, lk)
  ELSE IF lk = "None" THEN Raise(Returned, Raw("AttributeError"))
  ELSE LET r == Issue(Returned, SdkCall("environment.refresh", EnvObj(env_name).reference, NONE))
       IN IF out = "ok" THEN WriteJob(r) ELSE RefreshCatch(r, out)

\* ---------------------------------------------------------- create_linux_env
\* Mutant: the password is tested for truth, not for None.
LinuxCredential_Truthiness(passwd) ==
  IF ~Truthy(passwd) THEN [type |-> "SystemKeyCredential", password |-> NONE]
  ELSE [type |-> "PasswordCredential", password |-> passwd]

LinuxCredential(passwd) ==
  IF passwd = NONE THEN [type |-> "SystemKeyCredential", password |-> NONE]
  ELSE [type |-> "PasswordCredential", password |-> passwd]

LinuxHostEnvironment(env_name, ase_user, ase_pw) ==
  IF Truthy(ase_user)
  THEN [type |-> "UnixHostEnvironment", name |-> env_name,
        ase |-> [db_user |-> ase_user,
                 credentials |-> [type |-> "PasswordCredential", password |-> ase_pw]]]
  ELSE [type |-> "UnixHostEnvironment", name |-> env_name, ase |-> NONE]

LinuxCreateParameters(env_name, host_user, ip_addr, toolkit_path, passwd, ase_user, ase_pw) ==
  [primary_user |-> [name |-> host_user, credential |-> LinuxCredential(passwd)],
   host_parameters |-> [address |-> ip_addr, type |-> "UnixHost", name |-> env_name,
                        toolkitPath |-> toolkit_path],
   host_environment |-> LinuxHostEnvironment(env_name, ase_user, ase_pw)]

create_linux_env(env_name, host_user, ip_addr, toolkit_path, passwd, ase_user, ase_pw, out) ==
  LET p == LinuxCreateParameters(env_name, host_user, ip_addr, toolkit_path,
                                 passwd, ase_user, ase_pw)
      r == Issue(Returned, SdkCall("environment.create", NONE, p))
  IN IF out = "ok" THEN WriteJob(r)
     ELSE IF IsInstance(out, {"DlpxException", "RequestError", "HttpError"})
       THEN Raise(r, Wrapped(out))
     ELSE IF out = "JobError" THEN Raise(r, Wrapped(out))
     ELSE Raise(r, Raw(out))

\* -------------------------------------------------------- create_windows_env
connector_port == 9100

\* Mutant: the proxy is set to the connector environment, not to its host.
WindowsProxy_Reference(env_obj) == env_obj.reference

WindowsProxy(env_obj) == env_obj.host

WindowsCreateParameters(env_name, host_user, ip_addr, passwd, proxy) ==
  [primary_user |-> [name |-> host_user,
                     credential |-> [type |-> "PasswordCredential", password |-> passwd]],
   host_parameters |-> [type |-> "WindowsHostCreateParameters", name |-> env_name,
                        host |-> [type |-> "WindowsHost", connector_port |-> connector_port,
                                  address |-> ip_addr]],
   host_environment |-> [type |-> "WindowsHostEnvironment", name |-> env_name,
                         proxy |-> proxy]]

\* Whether line 344 looks the connector up at all.
ConnectorLookedUp(connector_name) == Truthy(connector_name)

create_windows_env(env_name, host_user, ip_addr, passwd, connector_name, lk, out) ==
  IF ConnectorLookedUp(connector_name) /\ lk \in Raisable THEN Raise(Returned, Raw(lk))
  ELSE IF ConnectorLookedUp(connector_name) /\ lk = "found" THEN
    LET p == WindowsCreateParameters(env_name, host_user, ip_addr, passwd,
                                     WindowsProxy(EnvObj(connector_name)))
        r == Issue(Returned, SdkCall("environment.create", NONE, p))
    IN IF out = "ok" THEN WriteJob(r)
       ELSE IF IsInstance(out, {"DlpxException", "RequestError", "HttpError"})
         THEN Raise(r, Wrapped(out))
       ELSE Raise(r, Raw(out))
  ELSE Raise(Returned, Raw("DlpxObjectNotFound"))

\* ------------------------------------------------------------ invocations
\* One invocation of an action function: its arguments, what the mocked SDK
\* answered, and what the function did.
Invocation(fn, args, mock, res) == [fn |-> fn, args |-> args, mock |-> mock, res |-> res]

NotCalled == Invocation("-", NONE, NONE, Returned)

\* main_workflow's dispatch matched no branch.
NoAction == Invocation("none", NONE, NONE, Returned)

\* A lookup followed by one SDK call: the call has an outcome only when the
\* lookup found the object.
LookupThenCall ==
  {m \in [lk : LookupOutcomes, out : CallOutcomes \cup {NONE}] : (m.lk = "found") <=> (m.out # NONE)}

\* The environments the engine holds and the outcome of the call made for each.
PerEnv(outcomes) ==
  UNION {{[envs |-> EnvList(k), outs |-> o] : o \in [1..k -> outcomes]} : k \in 0..MaxEnvs}

Invoke_enable(env_name) ==
  {Invocation("enable_environment", [env_name |-> env_name], m,
              enable_environment(env_name, m.lk, m.out)) : m \in LookupThenCall}

Invoke_disable(env_name) ==
  {Invocation("disable_environment", [env_name |-> env_name], m,
              disable_environment(env_name, m.lk, m.out)) : m \in LookupThenCall}

Invoke_update_host(old, new) ==
  {Invocation("update_host_address", [old_host_address |-> old, new_host_address |-> new], m,
              update_host_address(old, new, m.lk, m.old_type, m.out)) :
     m \in {x \in [lk : LookupOutcomes, old_type : HostTypes \cup {NONE},
                   out : CallOutcomes \cup {NONE}] :
              /\ (x.lk = "found") <=> (x.out # NONE)
              /\ (x.lk = "found") <=> (x.old_type # NONE)}}

Invoke_list ==
  {Invocation("list_env", NONE, [ga |-> "ok", envs |-> e.envs, outs |-> e.outs],
              list_env("ok", e.envs, e.outs)) : e \in PerEnv(ListOutcomes)}
  \cup
  {Invocation("list_env", NONE, [ga |-> ga, envs |-> <<>>, outs |-> <<>>],
              list_env(ga, <<>>, <<>>)) : ga \in Raisable}

Invoke_delete(env_name) ==
  {Invocation("delete_env", [env_name |-> env_name], m,
              delete_env(env_name, m.lk, m.out)) : m \in LookupThenCall}

Invoke_refresh_all ==
  {Invocation("refresh_env", [env_name |-> "all"],
              [fa |-> "ok", envs |-> e.envs, outs |-> e.outs],
              refresh_all("ok", e.envs, e.outs)) : e \in PerEnv(CallOutcomes)}
  \cup
  {Invocation("refresh_env", [env_name |-> "all"],
              [fa |-> fa, envs |-> <<>>, outs |-> <<>>],
              refresh_all(fa, <<>>, <<>>)) : fa \in Raisable}

Invoke_refresh_one(env_name) ==
  {Invocation("refresh_env", [env_name |-> env_name], m,
              refresh_one(env_name, m.lk, m.out)) : m \in LookupThenCall}

\* refresh_env: line 221 chooses between the two branches.
Invoke_refresh(env_name) ==
  IF env_name = "all" THEN Invoke_refresh_all ELSE Invoke_refresh_one(env_name)

Invoke_create_linux(env_name, host_user, ip_addr, toolkit_path, passwd, ase_user, ase_pw) ==
  {Invocation("create_linux_env",
              [env_name |-> env_name, host_user |-> host_user, ip_addr |-> ip_addr,
               toolkit_path |-> toolkit_path, passwd |-> passwd,
               ase_user |-> ase_user, ase_pw |-> ase_pw],
              [out |-> out],
              create_linux_env(env_name, host_user, ip_addr, toolkit_path, passwd,
                               ase_user, ase_pw, out)) : out \in Raisable \cup {"ok"}}

Invoke_create_windows(env_name, host_user, ip_addr, passwd, connector_name) ==
  {Invocation("create_windows_env",
              [env_name |-> env_name, host_user |-> host_user, ip_addr |-> ip_addr,
               passwd |-> passwd, connector_name |-> connector_name],
              m,
              create_windows_env(env_name, host_user, ip_addr, passwd, connector_name,
                                 m.lk, m.out)) :
     m \in {x \in [lk : LookupOutcomes \cup {NONE}, out : CallOutcomes \cup {NONE}] :
              /\ (x.lk # NONE) <=> ConnectorLookedUp(connector_name)
              /\ (x.lk = "found") <=> (x.out # NONE)}}

\* ----------------------------------------------------------------- state
VARIABLES
  ARGUMENTS,   \* the parsed command line (module global)
  mainpc,      \* main: "start", "join", "exited"; "harness" under CallSpec
  exitVia,     \* how main ended: "-", "return" or the exception that ended it
  exitCode,    \* the process exit code, -1 while running
  pc,          \* per engine, the worker's place in main_workflow
  session,     \* per engine, whether dlpx_session established the session
  thingstodo,  \* per engine, whether the list thingstodo is non-empty
  wlog,        \* per engine, what main_workflow's own handlers logged
  ret,         \* per engine, the action function invocation of the worker
  polled,      \* per engine, whether run_job.find_job_state was called
  spins,       \* per engine, idle iterations of the while loop
  jobs         \* dlpx_obj.jobs: engine name -> last job reference

vars ==
  <<ARGUMENTS, mainpc, exitVia, exitCode, pc, session, thingstodo, wlog, ret, polled,
    spins, jobs>>

\* ------------------------------------------------------------ command line
NoArguments ==
  [type |-> NONE, env_name |-> NONE, host_user |-> NONE, ip |-> NONE, toolkit |-> NONE,
   passwd |-> NONE, connector_name |-> NONE, update_ase_pw |-> NONE, delete |-> NONE,
   refresh |-> NONE, list |-> FALSE, update_host |-> FALSE, old_host_address |-> NONE,
   new_host_address |-> NONE, enable |-> FALSE, disable |-> FALSE]

Passwords == {NONE, "", "secret"}

ConnectorNames == {NONE, ""} \cup EnvNames

AseUsers == {NONE, "", "sa"}

AsePasswords == {NONE, "asepw"}

HostAddresses == {AllHostAddresses[i] : i \in 1..MaxEnvs}

\* The command lines of the usage grammar (lines 10-22), over small value sets.
CommandLines ==
  {[NoArguments EXCEPT !.type = t, !.env_name = "envA", !.host_user = "delphix",
                       !.ip = "10.0.1.50", !.toolkit = "/var/opt/delphix",
                       !.passwd = pw, !.connector_name = cn] :
     t \in {"windows", "linux", "solaris"}, pw \in Passwords, cn \in ConnectorNames}
  \cup {[NoArguments EXCEPT !.update_ase_pw = "newpw", !.env_name = "envA"]}
  \cup {[NoArguments EXCEPT !.delete = "envA"]}
  \cup {[NoArguments EXCEPT !.refresh = n] : n \in {"envA", "all"}}
  \cup {[NoArguments EXCEPT !.list = TRUE]}
  \cup {[NoArguments EXCEPT !.update_host = TRUE, !.old_host_address = "10.0.3.60",
                            !.new_host_address = "10.0.3.61"]}
  \cup {[NoArguments EXCEPT !.enable = f[1], !.disable = f[2], !.env_name = "envA"] :
          f \in {<<TRUE, FALSE>>, <<FALSE, TRUE>>, <<FALSE, FALSE>>}}

\* main_workflow, lines 388-413: the invocations the flags select.
Dispatch(A) ==
  IF A.type = "windows"
    THEN Invoke_create_windows(A.env_name, A.host_user, A.ip, A.passwd, A.connector_name)
  ELSE IF A.type = "linux"
    THEN Invoke_create_linux(A.env_name, A.host_user, A.ip, A.toolkit, A.passwd, NONE, NONE)
  ELSE IF Truthy(A.delete) THEN Invoke_delete(A.delete)
  ELSE IF Truthy(A.refresh) THEN Invoke_refresh(A.refresh)
  ELSE IF A.list THEN Invoke_list
  ELSE IF A.update_host THEN Invoke_update_host(A.old_host_address, A.new_host_address)
  ELSE IF A.enable THEN Invoke_enable(A.env_name)
  ELSE IF A.disable THEN Invoke_disable(A.env_name)
  ELSE {NoAction}

\* -------------------------------------------------------------------- jobs
Range(s) == {s[i] : i \in DOMAIN s}

\* The writes of one invocation by the worker of engine w, applied to jobs.
ApplyWrites(j, keys, w) ==
  [k \in DOMAIN j \cup Range(keys) |-> IF k \in Range(keys) THEN w ELSE j[k]]

Remove(j, rm) == [k \in DOMAIN j \ rm |-> j[k]]

\* ---------------------------------------------------------------- main
Init ==
  /\ ARGUMENTS \in CommandLines
  /\ mainpc = "start"
  /\ exitVia = "-"
  /\ exitCode = -1
  /\ pc = [w \in Engines |-> "idle"]
  /\ session = [w \in Engines |-> FALSE]
  /\ thingstodo = [w \in Engines |-> TRUE]
  /\ wlog = [w \in Engines |-> <<>>]
  /\ ret = [w \in Engines |-> NotCalled]
  /\ polled = [w \in Engines |-> FALSE]
  /\ spins = [w \in Engines |-> 0]
  /\ jobs = [k \in {} |-> 0]

\* What the calls of main's try block (GetSession, get_config, run_job) can raise.
MainRaisable == {"SystemExit", "DlpxException", "HttpError", "JobError", "KeyboardInterrupt"}

\* main's handlers, lines 446-479.
ExitCodeFor(kind) ==
  IF kind = "SystemExit" THEN 1
  ELSE IF kind = "DlpxException" THEN 2
  ELSE IF kind = "HttpError" THEN 2
  ELSE IF kind = "JobError" THEN 3
  ELSE 0

\* Lines 429-438: the configuration is read and run_job starts one
\* main_workflow thread for each engine it is asked to run against.
MainStart ==
  /\ mainpc = "start"
  /\ \E targets \in SUBSET Engines \ {{}} :
       pc' = [w \in Engines |-> IF w \in targets THEN "auth" ELSE "idle"]
  /\ mainpc' = "join"
  /\ UNCHANGED <<ARGUMENTS, exitVia, exitCode, session, thingstodo, wlog, ret, polled,
                 spins, jobs>>

MainFail ==
  /\ mainpc = "start"
  /\ \E kind \in MainRaisable :
       /\ exitVia' = kind
       /\ exitCode' = ExitCodeFor(kind)
  /\ mainpc' = "exited"
  /\ UNCHANGED <<ARGUMENTS, pc, session, thingstodo, wlog, ret, polled, spins, jobs>>

\* Lines 441-444: every thread is joined, the elapsed time is logged, main returns.
MainJoin ==
  /\ mainpc = "join"
  /\ \A w \in Engines : pc[w] \in {"idle", "done", "dead"}
  /\ mainpc' = "exited"
  /\ exitVia' = "return"
  /\ exitCode' = 0
  /\ UNCHANGED <<ARGUMENTS, pc, session, thingstodo, wlog, ret, polled, spins, jobs>>

\* -------------------------------------------------------- main_workflow
AuthOutcomes == {"ok", "DlpxException", "HttpError"}

\* Lines 375-382.
WorkerAuth(w) ==
  /\ pc[w] = "auth"
  /\ \E out \in AuthOutcomes :
       IF out = "ok"
         THEN /\ session' = [session EXCEPT ![w] = TRUE]
              /\ pc' = [pc EXCEPT ![w] = "loop"]
              /\ wlog' = wlog
       ELSE IF IsInstance(out, {"DlpxException"})
         THEN /\ wlog' = [wlog EXCEPT ![w] = Append(@, "auth:" \o out)]
              /\ pc' = [pc EXCEPT ![w] = "loop"]
              /\ session' = session
       ELSE /\ pc' = [pc EXCEPT ![w] = "dead"]
            /\ UNCHANGED <<session, wlog>>
  /\ UNCHANGED <<ARGUMENTS, mainpc, exitVia, exitCode, thingstodo, ret, polled, spins, jobs>>

\* The exception classes of the handler at lines 417-418.
WorkflowCatches == {"DlpxException", "RequestError", "JobError", "HttpError"}

\* Lines 386-413: the first iteration of the loop calls the action function.
WorkerAction(w) ==
  /\ pc[w] = "loop"
  /\ thingstodo[w]
  /\ \E inv \in Dispatch(ARGUMENTS) :
       /\ ret' = [ret EXCEPT ![w] = inv]
       /\ jobs' = ApplyWrites(jobs, inv.res.writes, w)
       /\ IF inv.res.raised = NoExc
            THEN /\ pc' = [pc EXCEPT ![w] = "poll"]
                 /\ wlog' = wlog
          ELSE IF IsInstance(inv.res.raised.kind, WorkflowCatches)
            THEN /\ pc' = [pc EXCEPT ![w] = "done"]
                 /\ wlog' = [wlog EXCEPT ![w] = Append(@, inv.res.raised.kind)]
          ELSE /\ pc' = [pc EXCEPT ![w] = "dead"]
               /\ wlog' = wlog
  /\ UNCHANGED <<ARGUMENTS, mainpc, exitVia, exitCode, session, thingstodo, polled, spins>>

\* What run_job.find_job_state can raise.
PollOutcomes == {"ok", "JobError", "DlpxException"}

\* Lines 414-415: thingstodo.pop(), then the job poller, which waits for the
\* jobs it finds in dlpx_obj.jobs and may drop entries from it.
WorkerPoll(w) ==
  /\ pc[w] = "poll"
  /\ thingstodo' = [thingstodo EXCEPT ![w] = FALSE]
  /\ polled' = [polled EXCEPT ![w] = TRUE]
  /\ \E out \in PollOutcomes, rm \in SUBSET DOMAIN jobs :
       /\ jobs' = Remove(jobs, rm)
       /\ IF out = "ok"
            THEN /\ pc' = [pc EXCEPT ![w] = "loop"]
                 /\ wlog' = wlog
            ELSE /\ pc' = [pc EXCEPT ![w] = "done"]
                 /\ wlog' = [wlog EXCEPT ![w] = Append(@, out)]
  /\ UNCHANGED <<ARGUMENTS, mainpc, exitVia, exitCode, session, ret, spins>>

\* Line 386: the loop ends when jobs and thingstodo are both empty.
WorkerLoopExit(w) ==
  /\ pc[w] = "loop"
  /\ ~thingstodo[w]
  /\ DOMAIN jobs = {}
  /\ pc' = [pc EXCEPT ![w] = "done"]
  /\ UNCHANGED <<ARGUMENTS, mainpc, exitVia, exitCode, session, thingstodo, wlog, ret,
                 polled, spins, jobs>>

\* Lines 386-387: jobs is non-empty and thingstodo is empty: the body does nothing.
WorkerSpin(w) ==
  /\ pc[w] = "loop"
  /\ ~thingstodo[w]
  /\ DOMAIN jobs # {}
  /\ spins[w] < MaxSpin
  /\ spins' = [spins EXCEPT ![w] = @ + 1]
  /\ UNCHANGED <<ARGUMENTS, mainpc, exitVia, exitCode, pc, session, thingstodo, wlog, ret,
                 polled, jobs>>

Next ==
  \/ MainStart
  \/ MainFail
  \/ MainJoin
  \/ \E w \in Engines : WorkerAuth(w)
  \/ \E w \in Engines : WorkerAction(w)
  \/ \E w \in Engines : WorkerPoll(w)
  \/ \E w \in Engines : WorkerLoopExit(w)
  \/ \E w \in Engines : WorkerSpin(w)

Spec == Init /\ [][Next]_vars

\* ------------------------------------------------- direct calls (CallSpec)
\* The action functions called directly, as a test against a mocked SDK calls
\* them, with a session object of the first configured engine.
CallInit ==
  /\ ARGUMENTS = NoArguments
  /\ mainpc = "harness"
  /\ exitVia = "-"
  /\ exitCode = -1
  /\ pc = [w \in Engines |-> "idle"]
  /\ session = [w \in Engines |-> w = engine_name]
  /\ thingstodo = [w \in Engines |-> TRUE]
  /\ wlog = [w \in Engines |-> <<>>]
  /\ ret = [w \in Engines |-> NotCalled]
  /\ polled = [w \in Engines |-> FALSE]
  /\ spins = [w \in Engines |-> 0]
  /\ jobs = [k \in {} |-> 0]

\* What a call leaves unchanged.
harnessFrame == <<ARGUMENTS, mainpc, exitVia, exitCode, pc, session, thingstodo, wlog,
                  polled, spins>>

RetAfter(inv) == [ret EXCEPT ![engine_name] = inv]

JobsAfter(inv) == ApplyWrites(jobs, inv.res.writes, engine_name)

CallEnable ==
  /\ mainpc = "harness"
  /\ \E n \in EnvNames : \E inv \in Invoke_enable(n) :
       ret' = RetAfter(inv) /\ jobs' = JobsAfter(inv)
  /\ UNCHANGED harnessFrame

CallDisable ==
  /\ mainpc = "harness"
  /\ \E n \in EnvNames : \E inv \in Invoke_disable(n) :
       ret' = RetAfter(inv) /\ jobs' = JobsAfter(inv)
  /\ UNCHANGED harnessFrame

CallUpdateHost ==
  /\ mainpc = "harness"
  /\ \E old \in HostAddresses, new \in HostAddresses :
       \E inv \in Invoke_update_host(old, new) :
         ret' = RetAfter(inv) /\ jobs' = JobsAfter(inv)
  /\ UNCHANGED harnessFrame

CallList ==
  /\ mainpc = "harness"
  /\ \E inv \in Invoke_list : ret' = RetAfter(inv) /\ jobs' = JobsAfter(inv)
  /\ UNCHANGED harnessFrame

CallDelete ==
  /\ mainpc = "harness"
  /\ \E n \in EnvNames : \E inv \in Invoke_delete(n) :
       ret' = RetAfter(inv) /\ jobs' = JobsAfter(inv)
  /\ UNCHANGED harnessFrame

CallRefresh ==
  /\ mainpc = "harness"
  /\ \E n \in EnvNames \cup {"all"} : \E inv \in Invoke_refresh(n) :
       ret' = RetAfter(inv) /\ jobs' = JobsAfter(inv)
  /\ UNCHANGED harnessFrame

CallCreateLinux ==
  /\ mainpc = "harness"
  /\ \E n \in EnvNames, pw \in Passwords, au \in AseUsers, ap \in AsePasswords :
       \E inv \in Invoke_create_linux(n, "delphix", "10.0.1.50", "/var/opt/delphix",
                                      pw, au, ap) :
         ret' = RetAfter(inv) /\ jobs' = JobsAfter(inv)
  /\ UNCHANGED harnessFrame

CallCreateWindows ==
  /\ mainpc = "harness"
  /\ \E n \in EnvNames, pw \in Passwords, cn \in ConnectorNames :
       \E inv \in Invoke_create_windows(n, "delphix", "10.0.1.50", pw, cn) :
         ret' = RetAfter(inv) /\ jobs' = JobsAfter(inv)
  /\ UNCHANGED harnessFrame

CallNext ==
  \/ CallEnable
  \/ CallDisable
  \/ CallUpdateHost
  \/ CallList
  \/ CallDelete
  \/ CallRefresh
  \/ CallCreateLinux
  \/ CallCreateWindows

CallSpec == CallInit /\ [][CallNext]_vars

\* ================================================================= claims
CountOp(calls, op) == Cardinality({i \in DOMAIN calls : calls[i].op = op})

Spawned == {w \in Engines : pc[w] # "idle"}

\* C1: when main_workflow runs for two or more engines, every write an action
\* function makes to dlpx_obj.jobs from the worker of engine E uses the key E.
C1_WritesUseOwnKey ==
  Cardinality(Spawned) >= 2 =>
    \A w \in Engines : \A i \in DOMAIN ret[w].res.writes : ret[w].res.writes[i] = w

\* C2: the exit code reflects the workers' outcome: 0 only when every engine's
\* action succeeded, 2 when an action raised a DlpxException or HttpError, 3
\* when it raised a JobError.
C2_ExitCodeReflectsWorkers ==
  mainpc = "exited" =>
    /\ exitCode = 0 => \A w \in Engines : ret[w].res.raised = NoExc
    /\ (\E w \in Engines : IsInstance(ret[w].res.raised.kind, {"DlpxException", "HttpError"}))
         => exitCode = 2
    /\ (\E w \in Engines : ret[w].res.raised.kind = "JobError") => exitCode = 3

\* C3: delete_env with a name that does not resolve (the lookup raises "not
\* found" or returns None) raises an "object not found" error, issues no
\* environment.delete call and leaves jobs unchanged.
C3_DeleteUnresolvedRaises ==
  \A w \in Engines :
    (ret[w].fn = "delete_env" /\ ret[w].mock.lk \in {"None", "DlpxObjectNotFound"}) =>
      /\ ret[w].res.raised.kind = "DlpxObjectNotFound"
      /\ CountOp(ret[w].res.calls, "environment.delete") = 0
      /\ ret[w].res.writes = <<>>

\* Whether the failure of the refresh of environment i was reported: logged,
\* or raised to the caller.
RefreshFailureReported(r, kind) ==
  \/ \E j \in DOMAIN r.logged : r.logged[j] = kind
  \/ kind \in {r.raised.kind, r.raised.cause}

\* C4: refresh_env("all") issues exactly one environment.refresh call for each
\* environment of the engine, whatever the refresh of another environment
\* raised, and every failure is reported.
C4_RefreshAllCoversEveryEnv ==
  \A w \in Engines :
    (ret[w].fn = "refresh_env" /\ ret[w].args.env_name = "all" /\ ret[w].mock.fa = "ok") =>
      /\ Len(ret[w].res.calls) = Len(ret[w].mock.envs)
      /\ \A i \in DOMAIN ret[w].mock.envs :
           /\ i \in DOMAIN ret[w].res.calls
           /\ ret[w].res.calls[i] =
                SdkCall("environment.refresh", EnvObj(ret[w].mock.envs[i]).reference, NONE)
           /\ ret[w].mock.outs[i] # "ok" =>
                RefreshFailureReported(ret[w].res, ret[w].mock.outs[i])

\* C5: create_windows_env without a connector name (None or empty) raises
\* "object not found" with no environment.create call and no write to jobs;
\* with a connector name that resolves, it issues exactly one
\* environment.create call whose host environment proxy is the host of the
\* connector environment.
C5_WindowsConnector ==
  \A w \in Engines :
    ret[w].fn = "create_windows_env" =>
      /\ ~Truthy(ret[w].args.connector_name) =>
           /\ ret[w].res.raised.kind = "DlpxObjectNotFound"
           /\ ret[w].res.calls = <<>>
           /\ ret[w].res.writes = <<>>
      /\ (Truthy(ret[w].args.connector_name) /\ ret[w].mock.lk = "found") =>
           /\ Len(ret[w].res.calls) = 1
           /\ ret[w].res.calls[1].op = "environment.create"
           /\ ret[w].res.calls[1].params.host_environment.proxy =
                EnvObj(ret[w].args.connector_name).host

C5_Witness ==
  \E w \in Engines :
    /\ ret[w].fn = "create_windows_env"
    /\ Truthy(ret[w].args.connector_name)
    /\ ret[w].mock.lk = "found"
    /\ ret[w].mock.out = "ok"
    /\ jobs[engine_name] = w

\* C6: create_linux_env builds the primary user's credential from passwd
\* alone: a SystemKeyCredential without password when passwd is None, else a
\* PasswordCredential carrying passwd, whatever ase_user and ase_pw are.
C6_LinuxCredentialFromPasswd ==
  \A w \in Engines :
    ret[w].fn = "create_linux_env" =>
      /\ CountOp(ret[w].res.calls, "environment.create") = 1
      /\ LET cred == ret[w].res.calls[1].params.primary_user.credential
         IN IF ret[w].args.passwd = NONE
              THEN cred = [type |-> "SystemKeyCredential", password |-> NONE]
              ELSE cred = [type |-> "PasswordCredential", password |-> ret[w].args.passwd]

C6_Witness ==
  \E w \in Engines :
    /\ ret[w].fn = "create_linux_env"
    /\ ret[w].args.passwd = ""
    /\ Truthy(ret[w].args.ase_user)
    /\ ret[w].res.calls[1].params.primary_user.credential.type = "PasswordCredential"

\* C7: update_host_address issues one host.update call against the reference
\* of the host resolved from old_host_address, with a host object whose address
\* is new_host_address and which is a WindowsHost exactly when the resolved
\* host's type is 'WindowsHost', and a UnixHost otherwise.
C7_UpdateHostKind ==
  \A w \in Engines :
    (ret[w].fn = "update_host_address" /\ ret[w].mock.lk = "found") =>
      /\ Len(ret[w].res.calls) = 1
      /\ ret[w].res.calls[1].op = "host.update"
      /\ ret[w].res.calls[1].ref =
           HostObj(ret[w].args.old_host_address, ret[w].mock.old_type).reference
      /\ ret[w].res.calls[1].params.address = ret[w].args.new_host_address
      /\ ret[w].res.calls[1].params.type =
           (IF ret[w].mock.old_type = "WindowsHost" THEN "WindowsHost" ELSE "UnixHost")

C7_Witness ==
  \E w \in Engines :
    /\ ret[w].fn = "update_host_address"
    /\ ret[w].mock.lk = "found"
    /\ ret[w].mock.old_type = "WindowsHost"
    /\ ret[w].args.old_host_address # ret[w].args.new_host_address
    /\ ret[w].res.calls[1].params.type = "WindowsHost"

Failure(inv) ==
  IF inv.mock.lk \in Raisable THEN inv.mock.lk
  ELSE IF inv.mock.out \in Raisable THEN inv.mock.out
  ELSE "none"

\* C9: when environment.create in create_linux_env or create_windows_env, or
\* the lookup or environment.refresh of refresh_env for one named environment,
\* raises a vendor exception or a DlpxException, the function raises a wrapped
\* DlpxException and does not write jobs.
C9_CreateRefreshWrap ==
  \A w \in Engines :
    /\ (ret[w].fn \in {"create_linux_env", "create_windows_env"}
        /\ ret[w].mock.out \in Raisable) =>
          /\ ret[w].res.raised = Wrapped(ret[w].mock.out)
          /\ ret[w].res.writes = <<>>
    /\ (ret[w].fn = "refresh_env" /\ ret[w].args.env_name # "all"
        /\ Failure(ret[w]) # "none") =>
          /\ ret[w].res.raised = Wrapped(Failure(ret[w]))
          /\ ret[w].res.writes = <<>>

Logged(r, kind) == \E j \in DOMAIN r.logged : r.logged[j] = kind

SoftKinds == {"DlpxException", "DlpxObjectNotFound", "RequestError"}

\* The first exception list_env meets: from environment.get_all, or from a
\* lookup made for an environment of the list.
ListFailure(mock) ==
  IF mock.ga \in Raisable THEN mock.ga
  ELSE LET bad == {i \in DOMAIN mock.outs : mock.outs[i] \in Raisable}
       IN IF bad = {} THEN "none"
          ELSE mock.outs[CHOOSE i \in bad : \A j \in bad : i <= j]

\* C10: when a call made by enable_environment, disable_environment or list_env
\* (the lookup as well as the SDK call) raises a DlpxException or a
\* RequestError, the function logs it and returns normally.
C10_LogAndContinue ==
  \A w \in Engines :
    /\ (ret[w].fn \in {"enable_environment", "disable_environment"}
        /\ Failure(ret[w]) \in SoftKinds) =>
          /\ ret[w].res.raised = NoExc
          /\ Logged(ret[w].res, Failure(ret[w]))
    /\ (ret[w].fn = "list_env" /\ ListFailure(ret[w].mock) \in SoftKinds) =>
          /\ ret[w].res.raised = NoExc
          /\ Logged(ret[w].res, ListFailure(ret[w].mock))

ActionFunctions ==
  {"create_windows_env", "create_linux_env", "delete_env", "refresh_env", "list_env",
   "update_host_address", "enable_environment", "disable_environment"}

\* The action function the flags select.
SelectedByFlags(A) ==
  IF A.type = "windows" THEN "create_windows_env"
  ELSE IF A.type = "linux" THEN "create_linux_env"
  ELSE IF Truthy(A.delete) THEN "delete_env"
  ELSE IF Truthy(A.refresh) THEN "refresh_env"
  ELSE IF A.list THEN "list_env"
  ELSE IF A.update_host THEN "update_host_address"
  ELSE IF A.enable THEN "enable_environment"
  ELSE IF A.disable THEN "disable_environment"
  ELSE "unselected"

\* C11: for every command line of the grammar, a worker that has gone through
\* the dispatch has invoked exactly one action function, the one the flags
\* select.
C11_OneSelectedAction ==
  \A w \in Engines :
    ret[w].fn # "-" =>
      /\ ret[w].fn \in ActionFunctions
      /\ SelectedByFlags(ARGUMENTS) # "unselected" => ret[w].fn = SelectedByFlags(ARGUMENTS)

\* What does hold of the dispatch: when one of the eight selecting flags is
\* given, the function invoked is the selected one.
C11_SelectingFlagsDispatch ==
  \A w \in Engines :
    (ret[w].fn # "-" /\ SelectedByFlags(ARGUMENTS) # "unselected") =>
      ret[w].fn = SelectedByFlags(ARGUMENTS)

\* What does hold of the loop: a worker that has gone through the dispatch
\* never goes through it again.
C11_NoRepeat == [][\A w \in Engines : ret[w].fn # "-" => ret'[w] = ret[w]]_vars

Terminated(w) == pc[w] \in {"idle", "done", "dead"}

\* The worker is at the loop test with thingstodo empty: the action and the
\* call of find_job_state are behind it.
Idling(w) == pc[w] = "loop" /\ ~thingstodo[w]

\* jobs is non-empty, a worker is at the loop test after its poll, and no
\* worker is left that could still write or poll jobs.
Stuck ==
  /\ DOMAIN jobs # {}
  /\ \E w \in Engines : Idling(w)
  /\ \A w \in Engines : Terminated(w) \/ Idling(w)

\* C12: every worker eventually terminates: the loop exits after the action
\* and the call of find_job_state, also when jobs is still non-empty after
\* find_job_state returned.  No worker is ever left at the loop test with a
\* non-empty jobs that nothing will empty.
C12_WorkersTerminate == ~Stuck

\* Once stuck, always stuck: only the action and the poll change jobs, so a
\* stuck worker stays in the loop and main never gets past join.
C12_StuckForever == [][Stuck => (Stuck' /\ mainpc' # "exited")]_vars

====
